---- MODULE Spec2Model ----
(***************************************************************************)
(* Model of satio_pc/preprocessing/clouds.py: preprocess_scl (the SCL mask *)
(* derivation) and the SCLMask container with its clip operation.          *)
(*                                                                         *)
(* An array is a sequence along its first axis: a (y, x) plane is a        *)
(* sequence of rows, a (time, y, x) stack a sequence of planes.  A boolean *)
(* plane is the set of the positions <<y, x>> that hold True.  Ratios are  *)
(* exact fractions <<numerator, denominator>>; a zero denominator is the   *)
(* 0/0 of the unguarded floating division, i.e. NaN.  An optional argument *)
(* is <<>> for None and <<v>> for the value v.                             *)
(***************************************************************************)
EXTENDS Integers, Sequences, FiniteSets, TLC

VARIABLES
    scl_data,           \* input code stack, time-major, band 'SCL' selected
    mask_values,        \* argument mask_values (None or a set of codes)
    erode_r,            \* argument erode_r (None or an integer)
    dilate_r,           \* argument dilate_r (None or an integer)
    max_invalid_ratio,  \* argument max_invalid_ratio (None or a fraction)
    pc,                 \* position inside preprocess_scl
    exc,                \* exception that ended the call, "none" if none
    mask,               \* local `mask`: per timestep the set of True pixels
    mask_shape,         \* shape of the local `mask` array
    e,                  \* local `e`: erosion footprint, <<>> while unbound
    d,                  \* local `d`: dilation footprint, <<>> while unbound
    obs,                \* local `obs`
    invalid_before,     \* local `invalid_before`
    invalid_after,      \* local `invalid_after`
    cover,              \* locals cover_snow, cover_water, cover_veg, cover_notveg
    aux,                \* local `aux`: the concatenated statistics array
    aux_shape,          \* shape of the local `aux` array
    returned,           \* TRUE once the call has returned an SCLMask
    containers          \* SCLMask objects, oldest first (clip chain)

vars == <<scl_data, mask_values, erode_r, dilate_r, max_invalid_ratio, pc, exc,
          mask, mask_shape, e, d, obs, invalid_before, invalid_after, cover,
          aux, aux_shape, returned, containers>>

callVars == <<scl_data, mask_values, erode_r, dilate_r, max_invalid_ratio>>

----------------------------------------------------------------------------
(* Bounds of the model *)

NY == 3
NX == 3
MaxT == 2
MaxR == 1
MaxClips == 2

----------------------------------------------------------------------------
(* Constants of the program *)

SCL_LEGEND ==
    [no_data |-> 0, saturated_or_defective |-> 1, dark_area_pixels |-> 2,
     cloud_shadows |-> 3, vegetation |-> 4, not_vegetated |-> 5, water |-> 6,
     unclassified |-> 7, cloud_medium_probability |-> 8,
     cloud_high_probability |-> 9, thin_cirrus |-> 10, snow |-> 11]

SCL_MASK_VALUES == {1, 3, 8, 9, 10, 11}

aux_names == <<"l2a_obs", "scl_invalid_before", "scl_invalid_after",
               "scl_snow_cover", "scl_water_cover", "scl_veg_cover",
               "scl_notveg_cover">>

----------------------------------------------------------------------------
(* Optional values and fractions *)

None == <<>>
Some(v) == <<v>>
IsNone(o) == o = <<>>
Val(o) == o[1]

Frac(n, m) == <<n, m>>
IsNaN(q) == q[2] = 0
\* q > r on floats: false as soon as one side is NaN
Greater(q, r) == /\ ~IsNaN(q)
                 /\ ~IsNaN(r)
                 /\ q[1] * r[2] > r[1] * q[2]

----------------------------------------------------------------------------
(* Array primitives *)

Ys == 1..NY
Xs == 1..NX
Pix == Ys \X Xs
Times(a) == DOMAIN a
\* a[y, x] of a plane
At(a, p) == a[p[1]][p[2]]

\* a plane and a stack written out element by element
plane(S) == {p : p \in S}
stack(a) == a \o <<>>

\* da.isin(a, values)
isin(a, values) == [t \in Times(a) |-> {p \in Pix : At(a[t], p) \in values}]
\* a == code
eq(a, code) == [t \in Times(a) |-> {p \in Pix : At(a[t], p) = code}]
\* a != code
ne(a, code) == [t \in Times(a) |-> {p \in Pix : At(a[t], p) # code}]
\* a & b on boolean arrays of the same shape
and(a, b) == [t \in Times(a) |-> {p \in Pix : p \in a[t] /\ p \in b[t]}]
\* ~a
invert(a) == [t \in Times(a) |-> {p \in Pix : p \notin a[t]}]
\* a | broadcast_to(plane, a.shape)
or_broadcast(a, layer) ==
    [t \in Times(a) |-> {p \in Pix : p \in a[t] \/ p \in layer}]
\* a.sum(axis=0)
sum0(a) ==
    [y \in Ys |-> [x \in Xs |-> Cardinality({t \in Times(a) : <<y, x>> \in a[t]})]]
\* counts / obs, elementwise
divide(counts, den) ==
    [y \in Ys |-> [x \in Xs |-> Frac(counts[y][x], den[y][x])]]

\* skimage footprints.disk(r)
disk(r) == {o \in (-r..r) \X (-r..r) : o[1] * o[1] + o[2] * o[2] <= r * r}

\* binary_erosion(m, fp): outside of the plane counts as False
binary_erosion(m, fp) ==
    plane({p \in Pix : \A o \in fp : <<p[1] + o[1], p[2] + o[2]>> \in m})

\* variant of binary_dilation: two iterations of the dilation
binary_dilation_twice(m, fp) ==
    LET once == plane({p \in Pix : \E o \in fp : <<p[1] - o[1], p[2] - o[2]>> \in m})
    IN  plane({p \in Pix : \E o \in fp : <<p[1] - o[1], p[2] - o[2]>> \in once})

\* binary_dilation(m, fp): outside of the plane counts as False
binary_dilation(m, fp) ==
    plane({p \in Pix : \E o \in fp : <<p[1] - o[1], p[2] - o[2]>> \in m})

\* variant of stack_erosion: the eroded planes are stacked in reverse order
stack_erosion_reversed(a, fp) ==
    stack([t \in Times(a) |-> binary_erosion(a[Len(a) + 1 - t], fp)])

\* da.stack([f(m) for m in a])
stack_erosion(a, fp) == stack([t \in Times(a) |-> binary_erosion(a[t], fp)])
stack_dilation(a, fp) == stack([t \in Times(a) |-> binary_dilation(a[t], fp)])

\* da.concatenate(planes, axis=0): the rows of the planes, one plane after
\* the other
RECURSIVE concatenate(_)
concatenate(planes) ==
    IF planes = <<>> THEN <<>> ELSE Head(planes) \o concatenate(Tail(planes))

\* .shape of a 2D array
shape2(a) == <<Len(a), Len(a[1])>>

----------------------------------------------------------------------------
(* preprocess_scl *)

\* variant of effective_mask_values: the caller's set is used when one is given
effective_mask_values_honoured(mv) == IF IsNone(mv) THEN SCL_MASK_VALUES ELSE Val(mv)

\* mask_values = SCL_MASK_VALUES: the argument is overwritten
effective_mask_values(mv) == SCL_MASK_VALUES

\* mask = da.isin(scl_data, mask_values)
binarize(scl, mv) == isin(scl, effective_mask_values(mv))

\* variant of gate: the stage runs only for a radius above zero
gate_positive(r) == (~IsNone(r)) /\ (Val(r) > 0)

\* (r is not None) | (r > 0): `|` evaluates both operands, and None > 0
\* raises TypeError
gate_raises(r) == IsNone(r)
\* value of the condition when it does not raise
gate(r) == (~IsNone(r)) \/ (Val(r) > 0)

\* ts_obs = scl_data != 0
ts_obs(scl) == ne(scl, SCL_LEGEND.no_data)

\* obs = ts_obs.sum(axis=0)
count_obs(scl) == sum0(ts_obs(scl))

\* variant of ratio: the predicate is counted without `& ts_obs`
ratio_ungated(pred, ts, den) == divide(sum0(pred), den)

\* (pred & ts_obs).sum(axis=0) / obs
ratio(pred, ts, den) == divide(sum0(and(pred, ts)), den)

\* the erosion stage on a mask whose gate did not raise
stage_erode(m, r) == IF gate(r) THEN stack_erosion(m, disk(Val(r))) ELSE m

\* the dilation stage on a mask whose gate did not raise
stage_dilate(m, r) == IF gate(r) THEN stack_dilation(m, disk(Val(r))) ELSE m

\* variant of override: the pixels over the threshold are cleared, not set
override_clearing(m, after, thr) ==
    [t \in Times(m) |-> {p \in Pix : p \in m[t] /\ ~Greater(At(after, p), thr)}]

\* mask | da.broadcast_to(invalid_after > max_invalid_ratio, mask.shape)
override(m, after, thr) ==
    or_broadcast(m, {p \in Pix : Greater(At(after, p), thr)})

\* mask = ~mask, then the override when max_invalid_ratio is not None
finalize_mask(m, after, thr) ==
    IF IsNone(thr) THEN invert(m) ELSE override(invert(m), after, Val(thr))

\* the mask of a whole call whose gates do not raise (lines 120-156)
call_mask(scl, mv, er, dr, thr) ==
    LET m == stage_dilate(stage_erode(binarize(scl, mv), er), dr)
    IN  finalize_mask(m, ratio(m, ts_obs(scl), count_obs(scl)), thr)

\* the seven planes handed to da.concatenate, in order
aux_planes ==
    <<obs, invalid_before, invalid_after,
      cover.snow, cover.water, cover.veg, cover.notveg>>

\* xr.DataArray(data, dims=...) refuses data whose ndim differs from len(dims)
dims_mismatch(shape, dims) == Len(shape) # Len(dims)

\* a labelled array as far as clipping is concerned: its shape and its y and
\* x coordinates
DataArray(shape, ys, xs) == [shape |-> shape, y |-> ys, x |-> xs]

SCLMask(m, a) == [mask |-> m, aux |-> a]

\* lines 120-138
Stats ==
    /\ pc = "start"
    /\ mask' = binarize(scl_data, mask_values)
    /\ obs' = count_obs(scl_data)
    /\ invalid_before' = ratio(mask', ts_obs(scl_data), obs')
    /\ cover' =
         [snow   |-> ratio(eq(scl_data, SCL_LEGEND.snow), ts_obs(scl_data), obs'),
          water  |-> ratio(eq(scl_data, SCL_LEGEND.water), ts_obs(scl_data), obs'),
          veg    |-> ratio(eq(scl_data, SCL_LEGEND.vegetation), ts_obs(scl_data), obs'),
          notveg |-> ratio(eq(scl_data, SCL_LEGEND.not_vegetated), ts_obs(scl_data), obs')]
    /\ mask_shape' = <<Len(scl_data), NY, NX>>
    /\ pc' = "erode"
    /\ UNCHANGED <<callVars, exc, e, d, invalid_after, aux, aux_shape,
                   returned, containers>>

\* lines 140-142
Erode ==
    /\ pc = "erode"
    /\ IF gate_raises(erode_r)
       THEN /\ exc' = "TypeError"
            /\ pc' = "done"
            /\ UNCHANGED <<e, mask>>
       ELSE /\ e' = IF gate(erode_r) THEN Some(disk(Val(erode_r))) ELSE e
            /\ mask' = stage_erode(mask, erode_r)
            /\ pc' = "dilate"
            /\ UNCHANGED exc
    /\ UNCHANGED <<callVars, mask_shape, d, obs, invalid_before, invalid_after,
                   cover, aux, aux_shape, returned, containers>>

\* lines 144-146
Dilate ==
    /\ pc = "dilate"
    /\ IF gate_raises(dilate_r)
       THEN /\ exc' = "TypeError"
            /\ pc' = "done"
            /\ UNCHANGED <<d, mask>>
       ELSE /\ d' = IF gate(dilate_r) THEN Some(disk(Val(dilate_r))) ELSE d
            /\ mask' = stage_dilate(mask, dilate_r)
            /\ pc' = "finalize"
            /\ UNCHANGED exc
    /\ UNCHANGED <<callVars, mask_shape, e, obs, invalid_before, invalid_after,
                   cover, aux, aux_shape, returned, containers>>

\* lines 148-161
Finalize ==
    /\ pc = "finalize"
    /\ invalid_after' = ratio(mask, ts_obs(scl_data), obs)
    /\ mask' = finalize_mask(mask, invalid_after', max_invalid_ratio)
    \* expand_dims('band', axis=1)
    /\ mask_shape' = <<mask_shape[1], 1, mask_shape[2], mask_shape[3]>>
    /\ pc' = "assemble"
    /\ UNCHANGED <<callVars, exc, e, d, obs, invalid_before, cover, aux,
                   aux_shape, returned, containers>>

\* lines 163-185
Assemble ==
    /\ pc = "assemble"
    /\ aux' = concatenate(aux_planes)
    /\ aux_shape' = shape2(aux')
    /\ IF dims_mismatch(aux_shape', <<"time", "band", "y", "x">>)
       THEN /\ exc' = "ValueError"
            /\ UNCHANGED <<returned, containers>>
       ELSE /\ returned' = TRUE
            /\ containers' = <<SCLMask(DataArray(mask_shape, Ys, Xs),
                                       DataArray(aux_shape', Ys, Xs))>>
            /\ UNCHANGED exc
    /\ pc' = "done"
    /\ UNCHANGED <<callVars, mask, mask_shape, e, d, obs, invalid_before,
                   invalid_after, cover>>

----------------------------------------------------------------------------
(* Inputs of the calls that are explored *)

\* pixels on or above the diagonal: every other pixel is the mirror image of
\* one of them, and the disks, the stages and the statistics do not tell a
\* plane from its mirror image
Centres == {c \in Pix : c[1] <= c[2]}

\* regions of the plane: nothing, everything, and the disks around a centre
Shapes ==
    {{}, Pix}
    \cup {{p \in Pix : <<p[1] - c[1], p[2] - c[2]>> \in disk(r)} :
            c \in Centres, r \in 0..MaxR}

\* plane with code fg inside the region and bg outside
Paint(S, bg, fg) == [y \in Ys |-> [x \in Xs |-> IF <<y, x>> \in S THEN fg ELSE bg]]

\* <<background, foreground>> codes of a stack; every code of the legend occurs
CodePairs == {<<4, 10>>, <<0, 9>>, <<8, 0>>, <<6, 11>>, <<5, 3>>, <<2, 1>>,
              <<7, 4>>}

\* a stack of MaxT planes: the painted region first, then planes that are all
\* the painted region, all background or all foreground
StacksOf(S, c) ==
    {[t \in 1..MaxT |-> IF t = 1 THEN Paint(S, c[1], c[2]) ELSE rest] :
        rest \in {Paint(S, c[1], c[2]), Paint({}, c[1], c[2]),
                  Paint(Pix, c[1], c[2])}}

Stacks == UNION {StacksOf(S, c) : S \in Shapes, c \in CodePairs}

\* single-plane stacks: clouds (9) on no pixel, one pixel or every pixel, over
\* vegetation or over no_data
ArgStacks ==
    {<<Paint(S, bg, 9)>> : S \in {{}, Pix} \cup {{p} : p \in Pix}, bg \in {4, 0}}

IntRadii == {Some(r) : r \in 0..MaxR}
Radii == {None} \cup IntRadii
Thresholds == {None, Some(Frac(0, 1)), Some(Frac(1, 2))}
MorphThresholds == {None, Some(Frac(1, 2))}
MaskValueArgs == {None, Some({}), Some({1, 3, 8, 10, 11})}

\* calls with integer radii on every stack
InitMorph ==
    /\ scl_data \in Stacks
    /\ mask_values = None
    /\ erode_r \in IntRadii
    /\ dilate_r \in IntRadii
    /\ max_invalid_ratio \in MorphThresholds

\* calls with every combination of optional arguments
InitArgs ==
    /\ scl_data \in ArgStacks
    /\ mask_values \in MaskValueArgs
    /\ erode_r \in Radii
    /\ dilate_r \in Radii
    /\ max_invalid_ratio \in Thresholds

InitLocals ==
    /\ pc = "start"
    /\ exc = "none"
    /\ mask = <<>>
    /\ mask_shape = <<>>
    /\ e = None
    /\ d = None
    /\ obs = <<>>
    /\ invalid_before = <<>>
    /\ invalid_after = <<>>
    /\ cover = <<>>
    /\ aux = <<>>
    /\ aux_shape = <<>>
    /\ returned = FALSE
    /\ containers = <<>>

Init == (InitMorph \/ InitArgs) /\ InitLocals

Next == Stats \/ Erode \/ Dilate \/ Finalize \/ Assemble

Spec == Init /\ [][Next]_vars

----------------------------------------------------------------------------
(* SCLMask.clip *)

\* arr.rio.clip(*bounds): the pixels whose centre lies in the rectangle
\* <<xmin, ymin, xmax, ymax>>; the shape follows the coordinates
rio_clip(arr, bounds) ==
    LET ys == {y \in arr.y : bounds[2] <= y /\ y <= bounds[4]}
        xs == {x \in arr.x : bounds[1] <= x /\ x <= bounds[3]}
    IN  DataArray([arr.shape EXCEPT ![3] = Cardinality(ys),
                                    ![4] = Cardinality(xs)], ys, xs)

\* the crop raises when nothing of the array lies in the rectangle
no_data_in_bounds(arr, bounds) ==
    rio_clip(arr, bounds).y = {} \/ rio_clip(arr, bounds).x = {}

\* variant of clip: the new container keeps the uncropped aux
clip_mask_only(self, bounds) ==
    [self |-> self, new |-> SCLMask(rio_clip(self.mask, bounds), self.aux)]

\* SCLMask.clip: the object it was called on afterwards, and the new object
clip(self, bounds) ==
    [self |-> self,
     new  |-> SCLMask(rio_clip(self.mask, bounds), rio_clip(self.aux, bounds))]

\* rectangles <<xmin, ymin, xmax, ymax>> handed to clip
Bounds ==
    {b \in (0..NX) \X (0..NY) \X (0..NX) \X (0..NY) : b[1] <= b[3] /\ b[2] <= b[4]}

\* clip called on the newest container
Clip(bounds) ==
    /\ containers # <<>>
    /\ Len(containers) <= MaxClips
    /\ LET n == Len(containers)
           self == containers[n]
       IN  IF no_data_in_bounds(self.mask, bounds) \/ no_data_in_bounds(self.aux, bounds)
           THEN /\ exc' = "NoDataInBounds"
                /\ UNCHANGED containers
           ELSE /\ exc' = "none"
                /\ containers' =
                     Append([containers EXCEPT ![n] = clip(self, bounds).self],
                            clip(self, bounds).new)
    /\ UNCHANGED <<callVars, pc, mask, mask_shape, e, d, obs, invalid_before,
                   invalid_after, cover, aux, aux_shape, returned>>

\* a container built from a mask of T timesteps and its aux, both on the whole
\* grid of pixels
InitClip ==
    /\ scl_data = <<>>
    /\ mask_values = None
    /\ erode_r = None
    /\ dilate_r = None
    /\ max_invalid_ratio = None
    /\ pc = "idle"
    /\ exc = "none"
    /\ mask = <<>>
    /\ mask_shape = <<>>
    /\ e = None
    /\ d = None
    /\ obs = <<>>
    /\ invalid_before = <<>>
    /\ invalid_after = <<>>
    /\ cover = <<>>
    /\ aux = <<>>
    /\ aux_shape = <<>>
    /\ returned = FALSE
    /\ \E T \in 1..MaxT :
         containers = <<SCLMask(DataArray(<<T, 1, NY, NX>>, Ys, Xs),
                                DataArray(<<1, 7, NY, NX>>, Ys, Xs))>>

NextClip == \E bounds \in Bounds : Clip(bounds)

SpecClip == InitClip /\ [][NextClip]_vars

----------------------------------------------------------------------------
(* Properties *)

\* the mask-value set {1, 3, 8, 9, 10, 11} and the membership of the raw codes
MaskSet == {1, 3, 8, 9, 10, 11}
RawMasked(t, p) == At(scl_data[t], p) \in MaskSet

\* the call has ended with the mask it hands to SCLMask computed (line 161 is
\* passed)
Finalized == pc = "done" /\ Len(mask_shape) = 4
\* the call has built the statistics array (line 174 is passed)
Assembled == pc = "done" /\ aux_shape # <<>>

\* the plane of band b (1..7) inside the concatenated statistics array
Band(b, p) == aux[(b - 1) * NY + p[1]][p[2]]

\* a fraction with a positive denominator that lies in [0, 1]
InUnit(q) == q[2] > 0 /\ 0 <= q[1] /\ q[1] <= q[2]

OverThreshold(p) ==
    /\ ~IsNone(max_invalid_ratio)
    /\ Greater(At(invalid_after, p), Val(max_invalid_ratio))

\* C1 as stated: with max_invalid_ratio set, a pixel whose scl_invalid_after
\* exceeds it is False (invalid) in the mask at every timestep.
C1_ForcedInvalid ==
    Finalized =>
        \A p \in Pix : OverThreshold(p) => \A t \in Times(mask) : p \notin mask[t]

\* C1 amended: with max_invalid_ratio set, a pixel whose scl_invalid_after
\* exceeds it is True (valid) in the mask at every timestep, also at the
\* timesteps where its raw code is in the mask-value set.
C1_ForcedValid ==
    Finalized =>
        \A p \in Pix : OverThreshold(p) => \A t \in Times(mask) : p \in mask[t]

\* a pixel over the threshold, valid in the mask at a timestep where its raw
\* code is a mask value
C1_Witness ==
    /\ Finalized
    /\ \E p \in Pix, t \in Times(mask) :
          OverThreshold(p) /\ RawMasked(t, p) /\ p \in mask[t]

\* C2 as stated: with erode_r, dilate_r and max_invalid_ratio all None the call
\* returns, scl_invalid_before equals scl_invalid_after, and the mask is True
\* exactly where the raw code is not a mask value.
C2_NoMorphologyReturns ==
    (pc = "done" /\ IsNone(erode_r) /\ IsNone(dilate_r) /\ IsNone(max_invalid_ratio))
        => /\ returned
           /\ invalid_before = invalid_after
           /\ \A t \in Times(mask), p \in Pix : p \in mask[t] <=> ~RawMasked(t, p)

\* C3 as stated: the call returns a mask of shape (T, 1, Y, X) and an aux of
\* shape (1, 7, Y, X) whose bands are the seven statistics in the fixed order.
C3_ShapesAndBands ==
    (pc = "done" /\ ~IsNone(erode_r) /\ ~IsNone(dilate_r))
        => /\ returned
           /\ mask_shape = <<Len(scl_data), 1, NY, NX>>
           /\ aux_shape = <<1, Len(aux_names), NY, NX>>

\* a pixel whose code is 0 at every timestep
NeverObserved(p) == \A t \in Times(scl_data) : At(scl_data[t], p) = 0

\* C4 as stated: at a pixel whose code is 0 at every timestep l2a_obs is 0 and
\* the six ratios are NaN, and the call returns without raising.
C4_NeverObservedIsNaN ==
    (pc = "done" /\ ~IsNone(erode_r) /\ ~IsNone(dilate_r))
        => /\ returned
           /\ \A p \in Pix : NeverObserved(p) =>
                 /\ At(obs, p) = 0
                 /\ \A q \in {At(invalid_before, p), At(invalid_after, p),
                              At(cover.snow, p), At(cover.water, p),
                              At(cover.veg, p), At(cover.notveg, p)} :
                       IsNaN(q)

\* C5: at every pixel observed at least once, each of the six ratio bands of
\* the statistics array lies in [0, 1], whatever the radii.
C5_RatiosInUnitInterval ==
    Assembled =>
        \A p \in Pix : At(obs, p) > 0 => \A b \in 2..7 : InUnit(Band(b, p))

\* the dilation disk is larger than the erosion disk and the invalid mask has
\* grown over an unobserved pixel-time of a pixel that is observed elsewhere
C5_Witness ==
    /\ Assembled
    /\ IsNone(max_invalid_ratio)
    /\ Val(dilate_r) > Val(erode_r)
    /\ \E p \in Pix, t \in Times(mask) :
          At(scl_data[t], p) = 0 /\ p \notin mask[t] /\ At(obs, p) > 0

Paired(c) == c.mask.y = c.aux.y /\ c.mask.x = c.aux.x

\* C7: every container made by clip holds the mask and the aux of the container
\* it was made from, both cropped with one and the same bounds, so that their
\* y and x coordinates agree; the container clip was called on is unchanged.
C7_ClipKeepsPairing ==
    /\ [](\A i \in DOMAIN containers :
            /\ Paired(containers[i])
            /\ i > 1 => \E b \in Bounds :
                          /\ containers[i].mask = rio_clip(containers[i - 1].mask, b)
                          /\ containers[i].aux = rio_clip(containers[i - 1].aux, b))
    /\ [][\A i \in DOMAIN containers : containers'[i] = containers[i]]_vars

\* two clips in a row, each of which removed pixels
C7_Witness ==
    /\ Len(containers) = 3
    /\ containers[2].mask.y # containers[1].mask.y
    /\ containers[3].mask.x # containers[2].mask.x
    /\ containers[3].aux.x # containers[1].aux.x

\* the permutations of 1..n
Perms(n) == {f \in [1..n -> 1..n] : \A i, j \in 1..n : i # j => f[i] # f[j]}

\* C8: with max_invalid_ratio unset, the mask plane at timestep t is the mask
\* of the one-plane stack made of the input plane t, and permuting the input
\* planes permutes the mask planes the same way.
C8_TimestepsIndependent ==
    (Finalized /\ IsNone(max_invalid_ratio)) =>
        /\ \A t \in Times(mask) :
              mask[t] = call_mask(<<scl_data[t]>>, mask_values, erode_r,
                                  dilate_r, None)[1]
        /\ \A f \in Perms(Len(scl_data)) :
              call_mask([t \in Times(scl_data) |-> scl_data[f[t]]], mask_values,
                        erode_r, dilate_r, None)
                = [t \in Times(mask) |-> mask[f[t]]]

\* a stack whose planes differ, eroded with a disk of radius 1 or more that
\* removed an invalid pixel-time, and whose mask planes differ
C8_Witness ==
    /\ Finalized
    /\ IsNone(max_invalid_ratio)
    /\ Val(erode_r) >= 1
    /\ \E t \in Times(mask), p \in Pix : RawMasked(t, p) /\ p \in mask[t]
    /\ \E t, u \in Times(mask) : scl_data[t] # scl_data[u] /\ mask[t] # mask[u]

\* the footprint of a disk of radius 0, and the raw membership mask
Disk0 == {<<0, 0>>}
RawMask == [t \in Times(scl_data) |-> {p \in Pix : RawMasked(t, p)}]

\* what C9 and its amended form share: with both radii 0 each stage runs with
\* the one-pixel disk and leaves the mask as it was, and scl_invalid_after
\* equals scl_invalid_before
C9_StagesRunAndKeep ==
    /\ pc = "dilate" => (e = Some(Disk0) /\ mask = RawMask)
    /\ pc = "finalize" => (d = Some(Disk0) /\ mask = RawMask)
    /\ Finalized => invalid_after = invalid_before

\* C9 as stated: with erode_r = 0 and dilate_r = 0 both stages run with the
\* one-pixel disk, each leaves the mask unchanged, the mask handed back is the
\* negation of the raw membership and scl_invalid_after = scl_invalid_before.
C9_ZeroRadiusIdentity ==
    (erode_r = Some(0) /\ dilate_r = Some(0)) =>
        /\ C9_StagesRunAndKeep
        /\ Finalized =>
              \A t \in Times(mask), p \in Pix : p \in mask[t] <=> ~RawMasked(t, p)

\* C9 amended: the same, the mask being the negation of the raw membership
\* when max_invalid_ratio is unset.
C9_ZeroRadiusIdentityNoThreshold ==
    (erode_r = Some(0) /\ dilate_r = Some(0)) =>
        /\ C9_StagesRunAndKeep
        /\ (Finalized /\ IsNone(max_invalid_ratio)) =>
              \A t \in Times(mask), p \in Pix : p \in mask[t] <=> ~RawMasked(t, p)

\* a call with both radii 0 and no threshold whose mask has valid and invalid
\* pixel-times
C9_Witness ==
    /\ Finalized
    /\ erode_r = Some(0) /\ dilate_r = Some(0)
    /\ IsNone(max_invalid_ratio)
    /\ e = Some(Disk0) /\ d = Some(Disk0)
    /\ \E t \in Times(mask), p, q \in Pix : p \in mask[t] /\ q \notin mask[t]

\* C10: with max_invalid_ratio unset and dilate_r <= erode_r, every invalid
\* pixel-time of the mask has a raw code in the mask-value set, and at every
\* pixel observed at least once scl_invalid_after <= scl_invalid_before.
C10_OpeningAddsNoInvalid ==
    (Finalized /\ IsNone(max_invalid_ratio) /\ Val(dilate_r) <= Val(erode_r)) =>
        /\ \A t \in Times(mask), p \in Pix : p \notin mask[t] => RawMasked(t, p)
        /\ \A p \in Pix : At(obs, p) > 0 =>
              At(invalid_after, p)[1] * At(invalid_before, p)[2]
                <= At(invalid_before, p)[1] * At(invalid_after, p)[2]

\* an erosion with a disk of radius 1 or more that turned an invalid pixel-time
\* valid and left another one invalid after the dilation
C10_Witness ==
    /\ Finalized
    /\ IsNone(max_invalid_ratio)
    /\ Val(erode_r) >= 1
    /\ Val(dilate_r) <= Val(erode_r)
    /\ \E t \in Times(mask), p, q \in Pix :
          RawMasked(t, p) /\ p \in mask[t] /\ q \notin mask[t]

====
